---- MODULE Spec2Model ----
(***************************************************************************)
(* Model of lib/portage/elog/messages.py: the process-wide elog message    *)
(* buffer (_elog_base, collect_messages, _reset_buffer) and the parser of  *)
(* per-phase log files (collect_ebuild_messages).                          *)
(*                                                                         *)
(* Python dicts are functions whose DOMAIN is the set of keys present;     *)
(* Python lists are sequences.  Python's None is the string "None".        *)
(***************************************************************************)
EXTENDS Integers, Sequences, FiniteSets, TLC

VARIABLES
    msgbuffer,   \* _msgbuffer: key -> (phase -> list of <<level, msg>>)
    rValue,      \* value returned by the last collect_messages call
    lastCall,    \* the call that produced the current state (history)
    prevCall,    \* the call before lastCall (history)
    pre,         \* _msgbuffer as it was when lastCall started (history)
    delivered,   \* recorded msg -> number of times collect_messages returned it (history)
    nops,        \* number of buffer calls made so far
    pc,          \* position of the collect_ebuild_messages call
    fsFiles,     \* the directory at path: file name -> text of the file
    fs0,         \* the directory as it was when the call started (history)
    listable,    \* whether os.listdir(path) succeeds
    unreadable,  \* names whose io.open()/read() raises
    unremovable, \* names whose os.unlink() raises OSError although they exist
    mylogfiles,  \* collect_ebuild_messages.mylogfiles
    idx,         \* index into mylogfiles of the running for loop
    logentries,  \* collect_ebuild_messages.logentries
    diag,        \* the writemsg() calls made so far
    ret,         \* value returned by collect_ebuild_messages
    opened,      \* names passed to io.open() so far (history)
    unlinked,    \* names passed to os.unlink() so far (history)
    nwrites,     \* number of files the concurrent writer has produced
    written,     \* names the writer has produced a file under (history)
    newFiles,    \* names whose file is the writer's and was not opened since (history)
    lostNew,     \* names whose writer's file was unlinked without being opened (history)
    hd,          \* heap of dict objects: index -> (key -> index)
    hl,          \* heap of list objects: index -> list of <<level, msg>>
    glob,        \* index of the dict object bound to _msgbuffer
    tpc,         \* thread -> statement it is about to run
    targ,        \* thread -> arguments of its running call
    trv,         \* thread -> index of the dict object bound to its rValue
    ti,          \* thread -> position in phasefilter of the loop of line 165
    ncalls,      \* thread -> number of calls it has started
    nrec,        \* number of _elog_base calls started
    returned,    \* the collect_messages returns so far (history)
    completed,   \* msgs whose _elog_base call has returned (history)
    mode,        \* which calls may overlap: "seq", "recdrain" or "drains"
    drainKey     \* the key argument of the collect_messages calls

bufVars == <<msgbuffer, rValue, lastCall, prevCall, pre, delivered, nops>>

parseVars == <<pc, fsFiles, fs0, listable, unreadable, unremovable, mylogfiles,
               idx, logentries, diag, ret, opened, unlinked,
               nwrites, written, newFiles, lostNew>>

writeVars == <<nwrites, written, newFiles, lostNew>>

vars == <<bufVars, parseVars, hd, hl, glob, tpc, targ, trv, ti, ncalls, nrec,
         returned, completed, mode, drainKey>>

-----------------------------------------------------------------------------
(* Bounds and input sets *)

MaxOps == 4

\* lines per file in the directory-level runs
MaxFileLines == 1

\* lines of the single file in the grouping runs
MaxLines == 5

\* lines of the single file in the line-format runs
MaxEdgeLines == 2

\* files the concurrent writer produces during one call
MaxWrites == 1

None == "None"

\* keys passed to _elog_base / collect_messages; None is the default of both
BufKeys == {None, "k1", "k2"}

\* phases passed to _elog_base and named by phase filters
BufPhases == {"compile", "install"}

\* levels passed by the generated einfo/ewarn/... functions
BufLevels == {"INFO", "WARN"}

\* phasefilter arguments that are not None
FilterPool == { <<>>, <<"compile">>,
                <<"compile", "install">>, <<"install", "install">> }

-----------------------------------------------------------------------------
(* Python dict primitives *)

EmptyDict == [x \in {} |-> {}]

DictSet(d, k, v) == [x \in (DOMAIN d) \cup {k} |-> IF x = k THEN v ELSE d[x]]

DictDel(d, k) == [x \in (DOMAIN d) \ {k} |-> d[x]]

-----------------------------------------------------------------------------
(* _elog_base, lines 143-147 *)

ElogBase_prepend(buf, level, msg, phase, key) ==
    LET b1 == IF key \notin DOMAIN buf THEN DictSet(buf, key, EmptyDict) ELSE buf
        b2 == IF phase \notin DOMAIN b1[key]
              THEN DictSet(b1, key, DictSet(b1[key], phase, <<>>))
              ELSE b1
    IN  DictSet(b2, key, DictSet(b2[key], phase, <<<<level, msg>>>> \o b2[key][phase]))

ElogBase(buf, level, msg, phase, key) ==
    LET b1 == IF key \notin DOMAIN buf THEN DictSet(buf, key, EmptyDict) ELSE buf
        b2 == IF phase \notin DOMAIN b1[key]
              THEN DictSet(b1, key, DictSet(b1[key], phase, <<>>))
              ELSE b1
    IN  DictSet(b2, key, DictSet(b2[key], phase, Append(b2[key][phase], <<level, msg>>)))

-----------------------------------------------------------------------------
(* _reset_buffer, lines 175-181: the value assigned to _msgbuffer *)

ResetBuffer_keep == msgbuffer

ResetBuffer == EmptyDict

(* collect_messages, lines 165-169: the loop over phasefilter.  inner is    *)
(* _msgbuffer[key], out is rValue[key]; a phase that is not in inner raises *)
(* KeyError, which is passed over.                                          *)
RECURSIVE PopPhases(_, _, _, _)
PopPhases(inner, out, phasefilter, i) ==
    IF i > Len(phasefilter) THEN [inner |-> inner, out |-> out]
    ELSE LET phase == phasefilter[i] IN
         IF phase \in DOMAIN inner
         THEN PopPhases(DictDel(inner, phase), DictSet(out, phase, inner[phase]),
                        phasefilter, i + 1)
         ELSE PopPhases(inner, out, phasefilter, i + 1)

(* collect_messages, lines 152-172.  given says whether phasefilter is not  *)
(* None.  The result is the returned value and the new _msgbuffer.          *)
CollectMessages_absentEntry(buf, key, given, phasefilter) ==
    IF key = None THEN [ret |-> buf, buf |-> ResetBuffer]
    ELSE IF key \notin DOMAIN buf
         THEN [ret |-> DictSet(EmptyDict, key, EmptyDict), buf |-> buf]
    ELSE IF ~given
         THEN [ret |-> DictSet(EmptyDict, key, buf[key]), buf |-> DictDel(buf, key)]
    ELSE LET r == PopPhases(buf[key], EmptyDict, phasefilter, 1) IN
         [ret |-> DictSet(EmptyDict, key, r.out),
          buf |-> IF DOMAIN r.inner = {} THEN DictDel(buf, key)
                  ELSE DictSet(buf, key, r.inner)]

CollectMessages_keepEmptyKey(buf, key, given, phasefilter) ==
    IF key = None THEN [ret |-> buf, buf |-> ResetBuffer]
    ELSE IF key \notin DOMAIN buf THEN [ret |-> EmptyDict, buf |-> buf]
    ELSE IF ~given
         THEN [ret |-> DictSet(EmptyDict, key, buf[key]), buf |-> DictDel(buf, key)]
    ELSE LET r == PopPhases(buf[key], EmptyDict, phasefilter, 1) IN
         [ret |-> DictSet(EmptyDict, key, r.out),
          buf |-> DictSet(buf, key, r.inner)]

CollectMessages_peek(buf, key, given, phasefilter) ==
    IF key = None THEN [ret |-> buf, buf |-> ResetBuffer]
    ELSE IF key \notin DOMAIN buf THEN [ret |-> EmptyDict, buf |-> buf]
    ELSE IF ~given
         THEN [ret |-> DictSet(EmptyDict, key, buf[key]), buf |-> buf]
    ELSE LET r == PopPhases(buf[key], EmptyDict, phasefilter, 1) IN
         [ret |-> DictSet(EmptyDict, key, r.out),
          buf |-> IF DOMAIN r.inner = {} THEN DictDel(buf, key)
                  ELSE DictSet(buf, key, r.inner)]

CollectMessages_resetFirst(buf, key, given, phasefilter) ==
    IF key = None THEN [ret |-> ResetBuffer, buf |-> ResetBuffer]
    ELSE IF key \notin DOMAIN buf THEN [ret |-> EmptyDict, buf |-> buf]
    ELSE IF ~given
         THEN [ret |-> DictSet(EmptyDict, key, buf[key]), buf |-> DictDel(buf, key)]
    ELSE LET r == PopPhases(buf[key], EmptyDict, phasefilter, 1) IN
         [ret |-> DictSet(EmptyDict, key, r.out),
          buf |-> IF DOMAIN r.inner = {} THEN DictDel(buf, key)
                  ELSE DictSet(buf, key, r.inner)]

CollectMessages(buf, key, given, phasefilter) ==
    IF key = None THEN [ret |-> buf, buf |-> ResetBuffer]
    ELSE IF key \notin DOMAIN buf THEN [ret |-> EmptyDict, buf |-> buf]
    ELSE IF ~given
         THEN [ret |-> DictSet(EmptyDict, key, buf[key]), buf |-> DictDel(buf, key)]
    ELSE LET r == PopPhases(buf[key], EmptyDict, phasefilter, 1) IN
         [ret |-> DictSet(EmptyDict, key, r.out),
          buf |-> IF DOMAIN r.inner = {} THEN DictDel(buf, key)
                  ELSE DictSet(buf, key, r.inner)]

-----------------------------------------------------------------------------
(* History bookkeeping *)

\* the positions <<key, phase, index>> of a key -> phase -> list mapping
Slots(d) ==
    UNION { UNION { { <<k, p, i>> : i \in DOMAIN d[k][p] } : p \in DOMAIN d[k] }
            : k \in DOMAIN d }

\* how many entries of d carry message msg
Occurrences(d, msg) ==
    Cardinality({ s \in Slots(d) : d[s[1]][s[2]][s[3]][2] = msg })

NoCall == [op |-> "none", key |-> None, phase |-> None, level |-> None,
           msg |-> 0, given |-> FALSE, phasefilter |-> <<>>]

RecordCall(level, msg, phase, key) ==
    [op |-> "record", key |-> key, phase |-> phase, level |-> level,
     msg |-> msg, given |-> FALSE, phasefilter |-> <<>>]

DrainCall(key, given, phasefilter) ==
    [op |-> "drain", key |-> key, phase |-> None, level |-> None,
     msg |-> 0, given |-> given, phasefilter |-> phasefilter]

-----------------------------------------------------------------------------
(* The buffer as Python objects, one statement at a time.                   *)
(*                                                                          *)
(* hd is the heap of dict objects and hl the heap of list objects; an      *)
(* object is named by its index.  A dict object maps a key to the index of *)
(* a dict (buffer and rValue: key -> phases) or of a list (phase ->        *)
(* entries).  glob is the object the global name _msgbuffer is bound to.   *)
(* Thread "w" calls the einfo/ewarn/... functions, threads "d1" and "d2"   *)
(* call collect_messages; a step is one statement of one thread.           *)

Recorders == {"w"}
Drainers == {"d1", "d2"}
Threads == Recorders \cup Drainers

\* calls per thread
MaxConcRecords == 2
MaxConcDrains == 1

\* arguments of the calls
ConcRecKeys == {"k1", "k2"}
ConcDrainKeys == {None, "k1"}
ConcFilters == { <<"compile">>, <<"install", "compile">> }

HSet(h, id, k, v) == [h EXCEPT ![id] = DictSet(@, k, v)]

HDel(h, id, k) == [h EXCEPT ![id] = DictDel(@, k)]

\* the key -> phase -> entries value of dict object id
ValOf(h, l, id) ==
    [k \in DOMAIN h[id] |-> [p \in DOMAIN h[h[id][k]] |-> l[h[h[id][k]][p]]]]

\* _msgbuffer.clear() in place of the rebinding
ResetHeap_clear(h, g) == [hd |-> [h EXCEPT ![g] = EmptyDict], glob |-> g]

\* _reset_buffer, line 181: _msgbuffer is bound to a new dict object
ResetHeap(h, g) == [hd |-> Append(h, EmptyDict), glob |-> Len(h) + 1]

concVars == <<hd, hl, glob, tpc, targ, trv, ti, ncalls, nrec, returned, completed,
              mode, drainKey>>

\* no call is running on the object heap
ConcIdle ==
    /\ hd = <<EmptyDict>>
    /\ hl = <<>>
    /\ glob = 1
    /\ tpc = [t \in Threads |-> "idle"]
    /\ targ = [t \in Threads |-> NoCall]
    /\ trv = [t \in Threads |-> 0]
    /\ ti = [t \in Threads |-> 0]
    /\ ncalls = [t \in Threads |-> 0]
    /\ nrec = 0
    /\ returned = <<>>
    /\ completed = {}
    /\ mode = "seq"
    /\ drainKey = None

\* the start of the process: an empty buffer, no call made yet
HeapStart ==
    /\ hd = <<EmptyDict>>
    /\ hl = <<>>
    /\ glob = 1
    /\ tpc = [t \in Threads |-> "idle"]
    /\ targ = [t \in Threads |-> NoCall]
    /\ trv = [t \in Threads |-> 0]
    /\ ti = [t \in Threads |-> 0]
    /\ ncalls = [t \in Threads |-> 0]
    /\ nrec = 0
    /\ returned = <<>>
    /\ completed = {}
    /\ drainKey \in ConcDrainKeys

-----------------------------------------------------------------------------
(* The sequential callers of the buffer *)

BufInit ==
    /\ msgbuffer = EmptyDict
    /\ rValue = EmptyDict
    /\ lastCall = NoCall
    /\ prevCall = NoCall
    /\ pre = EmptyDict
    /\ delivered = EmptyDict
    /\ nops = 0

\* einfo/ewarn/...(msg, phase, key): the msg of the n-th call overall is n
Record ==
    /\ nops < MaxOps
    /\ \E level \in BufLevels, phase \in BufPhases, key \in BufKeys :
          /\ msgbuffer' = ElogBase(msgbuffer, level, nops + 1, phase, key)
          /\ lastCall' = RecordCall(level, nops + 1, phase, key)
    /\ prevCall' = lastCall
    /\ pre' = msgbuffer
    /\ nops' = nops + 1
    /\ delivered' = DictSet(delivered, nops + 1, 0)
    /\ UNCHANGED rValue
    /\ UNCHANGED <<parseVars, concVars>>

\* collect_messages(key, phasefilter)
Drain ==
    /\ nops < MaxOps
    /\ \E key \in BufKeys, given \in BOOLEAN :
       \E phasefilter \in IF given THEN FilterPool ELSE {<<>>} :
          LET r == CollectMessages(msgbuffer, key, given, phasefilter) IN
          /\ msgbuffer' = r.buf
          /\ rValue' = r.ret
          /\ delivered' = [m \in DOMAIN delivered |->
                               delivered[m] + Occurrences(r.ret, m)]
          /\ lastCall' = DrainCall(key, given, phasefilter)
    /\ prevCall' = lastCall
    /\ pre' = msgbuffer
    /\ nops' = nops + 1
    /\ UNCHANGED <<parseVars, concVars>>

-----------------------------------------------------------------------------
(* Text of the log files.  A text is a sequence of symbols; NL is the      *)
(* newline character, SP the space, every other symbol a run of characters *)
(* holding neither.  A line is a text without NL.                           *)

NL == "\n"

SP == " "

log_levels == {"ERROR", "INFO", "LOG", "QA", "WARN"}

\* portage.const.EBUILD_PHASES: the phase names the file names are tested against
EBUILD_PHASES == {"pretend", "setup", "unpack", "prepare", "configure", "compile",
                  "test", "install", "package", "instprep", "preinst", "postinst",
                  "prerm", "postrm", "nofetch", "config", "info", "other"}

\* lines the bash side or anything else may have written to a log file
LinePool == { <<>>,
              <<"INFO", SP, "a">>, <<"INFO", SP, "b">>, <<"WARN", SP, "c">>,
              <<"BOGUS", SP, "x">>, <<"INFO">> }

\* file names found in the directory
DirNames == {"compile", "install", "not_a_phase"}

\* names that may be unreadable, names that may be impossible to unlink
UnreadablePool == {"install"}
UnremovablePool == {"compile", "not_a_phase"}

LineSeqs(n) == UNION { [1..k -> LinePool] : k \in 0..n }

\* each line is written with its terminating newline
RECURSIVE FileText(_)
FileText(lines) ==
    IF lines = <<>> THEN <<>>
    ELSE Head(lines) \o <<NL>> \o FileText(Tail(lines))

Texts(n) == { FileText(ls) : ls \in LineSeqs(n) }

\* position of the first symbol c in text t, 0 if there is none
FirstIndex(t, c) ==
    IF \E i \in DOMAIN t : t[i] = c
    THEN CHOOSE i \in DOMAIN t : t[i] = c /\ \A j \in 1..(i - 1) : t[j] # c
    ELSE 0

\* f.read().split("\n"), line 68
RECURSIVE SplitNL(_)
SplitNL(t) ==
    LET i == FirstIndex(t, NL) IN
    IF i = 0 THEN <<t>>
    ELSE <<SubSeq(t, 1, i - 1)>> \o SplitNL(SubSeq(t, i + 1, Len(t)))

\* lines of every shape: no space, leading space, empty or spaced message
EdgeLinePool == { <<>>,
                  <<"INFO", SP, "a">>, <<"WARN", SP, "c">>,
                  <<"INFO">>, <<"x">>,
                  <<"INFO", SP>>,
                  <<"INFO", SP, SP, "a">>,
                  <<"INFO", SP, "a", SP, "b">>,
                  <<SP, "INFO", SP, "a">>,
                  <<"info", SP, "a">> }

EdgeTexts(n) == { FileText(ls) : ls \in UNION { [1..k -> EdgeLinePool] : k \in 0..n } }

\* l.split(None, 1) in place of l.split(" ", 1): runs of spaces separate
SplitLine_anyWhitespace(l) ==
    LET body == SelectSeq(l, LAMBDA c : c # SP) IN
    IF Len(body) < 2 THEN [ok |-> FALSE, msgtype |-> None, msg |-> <<>>]
    ELSE IF body[1] \in log_levels
         THEN LET i == CHOOSE k \in DOMAIN l : l[k] = body[2] /\ k > FirstIndex(l, body[1])
                                                /\ \A j \in 1..(k - 1) : l[j] \in {SP, body[1]}
              IN  [ok |-> TRUE, msgtype |-> body[1], msg |-> SubSeq(l, i, Len(l))]
         ELSE [ok |-> FALSE, msgtype |-> None, msg |-> <<>>]

(* lines 72-74: msgtype, msg = l.split(" ", 1) and the test of msgtype.    *)
(* ok is FALSE when ValueError is raised: by the unpacking when l holds no *)
(* space, by line 74 when msgtype is not a log level.                       *)
SplitLine(l) ==
    LET i == FirstIndex(l, SP) IN
    IF i = 0 THEN [ok |-> FALSE, msgtype |-> None, msg |-> <<>>]
    ELSE LET tok == SubSeq(l, 1, i - 1) IN
         IF Len(tok) = 1 /\ tok[1] \in log_levels
         THEN [ok |-> TRUE, msgtype |-> tok[1], msg |-> SubSeq(l, i + 1, Len(l))]
         ELSE [ok |-> FALSE, msgtype |-> None, msg |-> <<>>]

\* the writemsg() calls of lines 52-54 and 76-79
InvalidFileDiag(name) == [kind |-> "invalid log file", file |-> name, line |-> <<>>]
MalformedDiag(name, l) == [kind |-> "malformed entry", file |-> name, line |-> l]

\* lines 58-59: the grouping state at the start of a file
GroupStart == [last |-> None, content |-> <<>>, out |-> <<>>, diags |-> <<>>]

(* lines 69-91: one iteration of the loop over the lines of file name.      *)
(* last is lastmsgtype, content is msgcontent, out is what was appended to *)
(* logentries[msgfunction].                                                 *)
GroupStep_malformedFlushes(st, name, l) ==
    IF l = <<>> THEN st
    ELSE LET p == SplitLine(l) IN
         IF ~p.ok
         THEN [st EXCEPT !.diags = Append(@, MalformedDiag(name, l)),
                         !.out = IF st.content # <<>>
                                 THEN Append(@, <<st.last, st.content>>) ELSE @,
                         !.content = <<>>]
         ELSE LET last1 == IF st.last = None THEN p.msgtype ELSE st.last IN
              IF p.msgtype = last1
              THEN [st EXCEPT !.content = Append(@, p.msg), !.last = p.msgtype]
              ELSE [st EXCEPT !.out = IF st.content # <<>>
                                      THEN Append(@, <<last1, st.content>>) ELSE @,
                              !.content = <<p.msg>>,
                              !.last = p.msgtype]

GroupStep_staleType(st, name, l) ==
    IF l = <<>> THEN st
    ELSE LET p == SplitLine(l) IN
         IF ~p.ok
         THEN [st EXCEPT !.diags = Append(@, MalformedDiag(name, l))]
         ELSE LET last1 == IF st.last = None THEN p.msgtype ELSE st.last IN
              IF p.msgtype = last1
              THEN [st EXCEPT !.content = Append(@, p.msg), !.last = p.msgtype]
              ELSE [st EXCEPT !.out = IF st.content # <<>>
                                      THEN Append(@, <<last1, st.content>>) ELSE @,
                              !.content = <<p.msg>>,
                              !.last = last1]

GroupStep(st, name, l) ==
    IF l = <<>> THEN st
    ELSE LET p == SplitLine(l) IN
         IF ~p.ok
         THEN [st EXCEPT !.diags = Append(@, MalformedDiag(name, l))]
         ELSE LET last1 == IF st.last = None THEN p.msgtype ELSE st.last IN
              IF p.msgtype = last1
              THEN [st EXCEPT !.content = Append(@, p.msg), !.last = p.msgtype]
              ELSE [st EXCEPT !.out = IF st.content # <<>>
                                      THEN Append(@, <<last1, st.content>>) ELSE @,
                              !.content = <<p.msg>>,
                              !.last = p.msgtype]

\* lines 68-91: the loop over the lines
RECURSIVE GroupLoop(_, _, _, _)
GroupLoop(st, name, lines, i) ==
    IF i > Len(lines) THEN st
    ELSE GroupLoop(GroupStep(st, name, lines[i]), name, lines, i + 1)

\* lines 58-94 for the lines of one file: the groups appended to
\* logentries[msgfunction], with the last group flushed, and the diagnostics
ParseLines(name, lines) ==
    LET st == GroupLoop(GroupStart, name, lines, 1) IN
    [groups |-> IF st.content # <<>> THEN Append(st.out, <<st.last, st.content>>)
                ELSE st.out,
     diags |-> st.diags]

(* lines 50-94: one iteration of the loop over mylogfiles, on directory fs  *)
(* and with logentries = entries.  outcome is "skipped" for an invalid     *)
(* name, "raised" when io.open() or read() raises (the exception leaves    *)
(* the function), "parsed" otherwise.                                       *)
FileStep_unlinkInvalid(name, fs, entries) ==
    IF name \notin EBUILD_PHASES
    THEN [outcome |-> "skipped", entries |-> entries,
          diags |-> <<InvalidFileDiag(name)>>, opened |-> {}, fs |-> DictDel(fs, name)]
    ELSE LET e1 == IF name \notin DOMAIN entries THEN DictSet(entries, name, <<>>)
                   ELSE entries
         IN  IF name \notin DOMAIN fs \/ name \in unreadable
             THEN [outcome |-> "raised", entries |-> e1, diags |-> <<>>,
                   opened |-> {name}, fs |-> fs]
             ELSE LET p == ParseLines(name, SplitNL(fs[name])) IN
                  [outcome |-> "parsed",
                   entries |-> DictSet(e1, name, e1[name] \o p.groups),
                   diags |-> p.diags, opened |-> {name}, fs |-> fs]

\* lines 56-57 moved to the flush: a file without groups gets no entry
FileStep_lazyEntry(name, fs, entries) ==
    IF name \notin EBUILD_PHASES
    THEN [outcome |-> "skipped", entries |-> entries,
          diags |-> <<InvalidFileDiag(name)>>, opened |-> {}, fs |-> fs]
    ELSE IF name \notin DOMAIN fs \/ name \in unreadable
         THEN [outcome |-> "raised", entries |-> entries, diags |-> <<>>,
               opened |-> {name}, fs |-> fs]
         ELSE LET p == ParseLines(name, SplitNL(fs[name])) IN
              [outcome |-> "parsed",
               entries |-> IF p.groups = <<>> THEN entries
                           ELSE DictSet(entries, name, p.groups),
               diags |-> p.diags, opened |-> {name}, fs |-> fs]

FileStep(name, fs, entries) ==
    IF name \notin EBUILD_PHASES
    THEN [outcome |-> "skipped", entries |-> entries,
          diags |-> <<InvalidFileDiag(name)>>, opened |-> {}, fs |-> fs]
    ELSE LET e1 == IF name \notin DOMAIN entries THEN DictSet(entries, name, <<>>)
                   ELSE entries
         IN  IF name \notin DOMAIN fs \/ name \in unreadable
             THEN [outcome |-> "raised", entries |-> e1, diags |-> <<>>,
                   opened |-> {name}, fs |-> fs]
             ELSE LET p == ParseLines(name, SplitNL(fs[name])) IN
                  [outcome |-> "parsed",
                   entries |-> DictSet(e1, name, e1[name] \o p.groups),
                   diags |-> p.diags, opened |-> {name}, fs |-> fs]

(* lines 98-101: os.unlink() of one name in directory fs; OSError (the     *)
(* name is gone or cannot be removed) is passed over.                       *)
Unlink_validOnly(fs, name) ==
    IF name \in DOMAIN fs /\ name \notin unremovable /\ name \in EBUILD_PHASES
    THEN DictDel(fs, name) ELSE fs

\* the whole directory removed in place of the one name
Unlink_wholeDir(fs, name) ==
    [x \in (DOMAIN fs) \cap unremovable |-> fs[x]]

Unlink(fs, name) ==
    IF name \in DOMAIN fs /\ name \notin unremovable THEN DictDel(fs, name) ELSE fs

Reverse(seq) == [i \in 1..Len(seq) |-> seq[Len(seq) + 1 - i]]

\* the orders in which os.listdir() may list the names of S
Listings(S) ==
    { order \in [1..Cardinality(S) -> S] :
         \A i, j \in 1..Cardinality(S) : i # j => order[i] # order[j] }

-----------------------------------------------------------------------------
(* collect_ebuild_messages(path) *)

ParserIdle ==
    /\ pc = "start"
    /\ fsFiles = EmptyDict
    /\ fs0 = EmptyDict
    /\ listable = TRUE
    /\ unreadable = {}
    /\ unremovable = {}
    /\ mylogfiles = <<>>
    /\ idx = 1
    /\ logentries = EmptyDict
    /\ diag = <<>>
    /\ ret = EmptyDict
    /\ opened = {}
    /\ unlinked = <<>>
    /\ nwrites = 0
    /\ written = {}
    /\ newFiles = {}
    /\ lostNew = {}

ParserStart ==
    /\ pc = "start"
    /\ fs0 = fsFiles
    /\ mylogfiles = <<>>
    /\ idx = 1
    /\ logentries = EmptyDict
    /\ diag = <<>>
    /\ ret = EmptyDict
    /\ opened = {}
    /\ unlinked = <<>>
    /\ nwrites = 0
    /\ written = {}
    /\ newFiles = {}
    /\ lostNew = {}

\* a directory of up to three files, some of which cannot be read or removed
DirInit ==
    /\ fsFiles \in UNION { [names -> Texts(MaxFileLines)] : names \in SUBSET DirNames }
    /\ \A name \in (DOMAIN fsFiles) \ EBUILD_PHASES :
          fsFiles[name] = FileText(<< <<"INFO", SP, "a">> >>)
    /\ listable \in BOOLEAN
    /\ unreadable \in SUBSET (UnreadablePool \cap DOMAIN fsFiles)
    /\ unremovable \in SUBSET (UnremovablePool \cap DOMAIN fsFiles)
    /\ ParserStart

\* a directory holding the log file of one phase
GroupInit ==
    /\ fsFiles \in [{"compile"} -> Texts(MaxLines)]
    /\ listable = TRUE
    /\ unreadable = {}
    /\ unremovable = {}
    /\ ParserStart

(* lines 38-45: where the call stands after the listing.  ok says whether  *)
(* os.listdir() succeeds on directory fs; OSError leaves mylogfiles None,   *)
(* and None and the empty list both take the shortcut of line 45.           *)
ListOutcome_uncaught(fs, ok) ==
    IF ~ok THEN "raised" ELSE IF DOMAIN fs = {} THEN "returned" ELSE "files"

ListOutcome(fs, ok) ==
    IF ~ok \/ DOMAIN fs = {} THEN "returned" ELSE "files"

\* lines 38-48
ListDir ==
    /\ pc = "start"
    /\ pc' = ListOutcome(fsFiles, listable)
    /\ IF pc' # "files"
       THEN /\ ret' = EmptyDict
            /\ UNCHANGED <<mylogfiles, idx, logentries>>
       ELSE /\ \E order \in Listings(DOMAIN fsFiles) : mylogfiles' = Reverse(order)
            /\ logentries' = EmptyDict
            /\ idx' = 1
            /\ UNCHANGED ret
    /\ UNCHANGED <<fsFiles, fs0, listable, unreadable, unremovable, diag, opened,
                   unlinked>>
    /\ UNCHANGED writeVars
    /\ UNCHANGED <<bufVars, concVars>>

\* lines 49-94, one iteration
ProcessFile ==
    /\ pc = "files"
    /\ LET r == FileStep(mylogfiles[idx], fsFiles, logentries) IN
          /\ logentries' = r.entries
          /\ diag' = diag \o r.diags
          /\ opened' = opened \cup r.opened
          /\ newFiles' = newFiles \ r.opened
          /\ fsFiles' = r.fs
          /\ pc' = IF r.outcome = "raised" THEN "raised"
                   ELSE IF idx = Len(mylogfiles) THEN "clean" ELSE "files"
          /\ idx' = IF r.outcome = "raised" THEN idx
                    ELSE IF idx = Len(mylogfiles) THEN 1 ELSE idx + 1
    /\ UNCHANGED <<fs0, listable, unreadable, unremovable, mylogfiles, ret, unlinked>>
    /\ UNCHANGED <<nwrites, written, lostNew>>
    /\ UNCHANGED <<bufVars, concVars>>

\* lines 97-102 with the try around the whole loop: the first OSError ends it
UnlinkFile_stopOnError ==
    /\ pc = "clean"
    /\ fsFiles' = Unlink(fsFiles, mylogfiles[idx])
    /\ unlinked' = Append(unlinked, mylogfiles[idx])
    /\ IF idx = Len(mylogfiles) \/ fsFiles' = fsFiles
       THEN pc' = "returned" /\ ret' = logentries /\ idx' = idx
       ELSE pc' = "clean" /\ ret' = ret /\ idx' = idx + 1
    /\ UNCHANGED <<fs0, listable, unreadable, unremovable, mylogfiles, logentries,
                   diag, opened>>
    /\ UNCHANGED writeVars
    /\ UNCHANGED <<bufVars, concVars>>

\* lines 97-102, one iteration; the function returns after the last one
UnlinkFile ==
    /\ pc = "clean"
    /\ fsFiles' = Unlink(fsFiles, mylogfiles[idx])
    /\ unlinked' = Append(unlinked, mylogfiles[idx])
    /\ IF idx = Len(mylogfiles)
       THEN pc' = "returned" /\ ret' = logentries /\ idx' = idx
       ELSE pc' = "clean" /\ ret' = ret /\ idx' = idx + 1
    /\ LET gone == (DOMAIN fsFiles) \ DOMAIN fsFiles' IN
          /\ lostNew' = lostNew \cup (gone \cap newFiles)
          /\ newFiles' = newFiles \ gone
    /\ UNCHANGED <<fs0, listable, unreadable, unremovable, mylogfiles, logentries,
                   diag, opened, nwrites, written>>
    /\ UNCHANGED <<bufVars, concVars>>

NextParser == ListDir \/ ProcessFile \/ UnlinkFile

InitParser == BufInit /\ DirInit /\ ConcIdle

SpecParser == InitParser /\ [][NextParser]_vars

\* a directory of log files of one line each, all readable and removable
WriterInit ==
    /\ fsFiles \in UNION { [names -> {FileText(<< <<"INFO", SP, "a">> >>)}]
                            : names \in SUBSET DirNames }
    /\ listable = TRUE
    /\ unreadable = {}
    /\ unremovable = {}
    /\ ParserStart

(* The concurrent writer of section 5: between the listing and the return  *)
(* of the call it produces a new log file under some name, in place of any *)
(* file of that name.                                                       *)
WriterCreate ==
    /\ pc \in {"files", "clean"}
    /\ nwrites < MaxWrites
    /\ \E name \in DirNames :
          /\ fsFiles' = DictSet(fsFiles, name, FileText(<< <<"WARN", SP, "c">> >>))
          /\ written' = written \cup {name}
          /\ newFiles' = newFiles \cup {name}
    /\ nwrites' = nwrites + 1
    /\ UNCHANGED <<pc, fs0, listable, unreadable, unremovable, mylogfiles, idx,
                   logentries, diag, ret, opened, unlinked, lostNew>>
    /\ UNCHANGED <<bufVars, concVars>>

NextWriter == ListDir \/ ProcessFile \/ UnlinkFile \/ WriterCreate

InitWriter == BufInit /\ WriterInit /\ ConcIdle

SpecWriter == InitWriter /\ [][NextWriter]_vars

\* a directory holding one phase file made of lines of every shape
EdgeInit ==
    /\ fsFiles \in [{"compile"} -> EdgeTexts(MaxEdgeLines)]
    /\ listable = TRUE
    /\ unreadable = {}
    /\ unremovable = {}
    /\ ParserStart

InitEdge == BufInit /\ EdgeInit /\ ConcIdle

SpecEdge == InitEdge /\ [][NextParser]_vars

InitGroup == BufInit /\ GroupInit /\ ConcIdle

SpecGroup == InitGroup /\ [][NextParser]_vars

-----------------------------------------------------------------------------
(* The statements of _elog_base and collect_messages on the object heap *)

\* Which calls may overlap.  "seq": none, a call starts only when no other
\* call is running (the drains are made by d1 and d2 in turn: which thread
\* makes a call that overlaps no other makes no difference).  "recdrain": a record and a drain, the drains run one
\* after the other.  "drains": the two drains, a record runs alone.
MayStart(t) ==
    /\ tpc[t] = "idle"
    /\ mode = "seq" => \A u \in Threads : tpc[u] = "idle"
    /\ mode = "seq" /\ t = "d1" => ncalls["d1"] = ncalls["d2"]
    /\ mode = "seq" /\ t = "d2" => ncalls["d1"] > ncalls["d2"]
    /\ mode = "recdrain" /\ t \in Drainers => \A u \in Drainers : tpc[u] = "idle"
    /\ mode = "drains" /\ t \in Drainers => \A u \in Recorders : tpc[u] = "idle"
    /\ mode = "drains" /\ t \in Recorders => \A u \in Threads : tpc[u] = "idle"

\* einfo/ewarn/...(msg, phase, key) is called: line 205, then 124-141
StartRecord ==
    \E t \in Recorders :
       /\ MayStart(t)
       /\ ncalls[t] < MaxConcRecords
       /\ \E phase \in BufPhases, key \in ConcRecKeys :
             targ' = [targ EXCEPT ![t] = RecordCall("INFO", nrec + 1, phase, key)]
       /\ nrec' = nrec + 1
       /\ tpc' = [tpc EXCEPT ![t] = "r143"]
       /\ ncalls' = [ncalls EXCEPT ![t] = @ + 1]
       /\ UNCHANGED <<hd, hl, glob, trv, ti, returned, completed, mode, drainKey>>
       /\ UNCHANGED <<bufVars, parseVars>>

\* line 143: if key not in _msgbuffer
R143 ==
    \E t \in Recorders :
       /\ tpc[t] = "r143"
       /\ tpc' = [tpc EXCEPT ![t] = IF targ[t].key \notin DOMAIN hd[glob]
                                     THEN "r144" ELSE "r145"]
       /\ UNCHANGED <<hd, hl, glob, targ, trv, ti, ncalls, nrec, returned, completed,
                      mode, drainKey>>
       /\ UNCHANGED <<bufVars, parseVars>>

\* line 144: _msgbuffer[key] = {}
R144 ==
    \E t \in Recorders :
       /\ tpc[t] = "r144"
       /\ hd' = HSet(Append(hd, EmptyDict), glob, targ[t].key, Len(hd) + 1)
       /\ tpc' = [tpc EXCEPT ![t] = "r145"]
       /\ UNCHANGED <<hl, glob, targ, trv, ti, ncalls, nrec, returned, completed,
                      mode, drainKey>>
       /\ UNCHANGED <<bufVars, parseVars>>

\* line 145: if phase not in _msgbuffer[key]; KeyError when key is gone
R145 ==
    \E t \in Recorders :
       /\ tpc[t] = "r145"
       /\ tpc' = [tpc EXCEPT ![t] =
                     IF targ[t].key \notin DOMAIN hd[glob] THEN "failed"
                     ELSE IF targ[t].phase \notin DOMAIN hd[hd[glob][targ[t].key]]
                          THEN "r146" ELSE "r147"]
       /\ UNCHANGED <<hd, hl, glob, targ, trv, ti, ncalls, nrec, returned, completed,
                      mode, drainKey>>
       /\ UNCHANGED <<bufVars, parseVars>>

\* line 146: _msgbuffer[key][phase] = []; KeyError when key is gone
R146 ==
    \E t \in Recorders :
       /\ tpc[t] = "r146"
       /\ IF targ[t].key \notin DOMAIN hd[glob]
          THEN /\ tpc' = [tpc EXCEPT ![t] = "failed"]
               /\ UNCHANGED <<hd, hl>>
          ELSE /\ hl' = Append(hl, <<>>)
               /\ hd' = HSet(hd, hd[glob][targ[t].key], targ[t].phase, Len(hl) + 1)
               /\ tpc' = [tpc EXCEPT ![t] = "r147"]
       /\ UNCHANGED <<glob, targ, trv, ti, ncalls, nrec, returned, completed,
                      mode, drainKey>>
       /\ UNCHANGED <<bufVars, parseVars>>

\* line 147: _msgbuffer[key][phase].append((level, msg)); KeyError when the
\* key or the phase is gone
R147 ==
    \E t \in Recorders :
       /\ tpc[t] = "r147"
       /\ IF \/ targ[t].key \notin DOMAIN hd[glob]
             \/ targ[t].phase \notin DOMAIN hd[hd[glob][targ[t].key]]
          THEN /\ tpc' = [tpc EXCEPT ![t] = "failed"]
               /\ UNCHANGED <<hl, completed>>
          ELSE /\ hl' = [hl EXCEPT ![hd[hd[glob][targ[t].key]][targ[t].phase]] =
                            Append(@, <<targ[t].level, targ[t].msg>>)]
               /\ completed' = completed \cup {targ[t].msg}
               /\ tpc' = [tpc EXCEPT ![t] = "idle"]
       /\ UNCHANGED <<hd, glob, targ, trv, ti, ncalls, nrec, returned, mode, drainKey>>
       /\ UNCHANGED <<bufVars, parseVars>>

\* collect_messages(key, phasefilter) is called; line 155: if key is None
StartDrain ==
    \E t \in Drainers :
       /\ MayStart(t)
       /\ ncalls[t] < MaxConcDrains
       /\ \E given \in BOOLEAN :
          \E phasefilter \in IF given THEN ConcFilters ELSE {<<>>} :
             targ' = [targ EXCEPT ![t] = DrainCall(drainKey, given, phasefilter)]
       /\ tpc' = [tpc EXCEPT ![t] = IF drainKey = None THEN "c156" ELSE "c159"]
       /\ ncalls' = [ncalls EXCEPT ![t] = @ + 1]
       /\ UNCHANGED <<hd, hl, glob, trv, ti, nrec, returned, completed, mode, drainKey>>
       /\ UNCHANGED <<bufVars, parseVars>>

\* line 156: rValue = _msgbuffer
C156 ==
    \E t \in Drainers :
       /\ tpc[t] = "c156"
       /\ trv' = [trv EXCEPT ![t] = glob]
       /\ tpc' = [tpc EXCEPT ![t] = "c157"]
       /\ UNCHANGED <<hd, hl, glob, targ, ti, ncalls, nrec, returned, completed,
                      mode, drainKey>>
       /\ UNCHANGED <<bufVars, parseVars>>

\* line 157: _reset_buffer()
C157 ==
    \E t \in Drainers :
       /\ tpc[t] = "c157"
       /\ hd' = ResetHeap(hd, glob).hd
       /\ glob' = ResetHeap(hd, glob).glob
       /\ tpc' = [tpc EXCEPT ![t] = "c172"]
       /\ UNCHANGED <<hl, targ, trv, ti, ncalls, nrec, returned, completed,
                      mode, drainKey>>
       /\ UNCHANGED <<bufVars, parseVars>>

\* lines 159-161: rValue = {}; if key in _msgbuffer; if phasefilter is None
C159 ==
    \E t \in Drainers :
       /\ tpc[t] = "c159"
       /\ hd' = Append(hd, EmptyDict)
       /\ trv' = [trv EXCEPT ![t] = Len(hd) + 1]
       /\ tpc' = [tpc EXCEPT ![t] =
                     IF targ[t].key \notin DOMAIN hd[glob] THEN "c172"
                     ELSE IF targ[t].given THEN "c164" ELSE "c162"]
       /\ UNCHANGED <<hl, glob, targ, ti, ncalls, nrec, returned, completed,
                      mode, drainKey>>
       /\ UNCHANGED <<bufVars, parseVars>>

\* line 162: rValue[key] = _msgbuffer.pop(key); KeyError when key is gone
C162 ==
    \E t \in Drainers :
       /\ tpc[t] = "c162"
       /\ IF targ[t].key \notin DOMAIN hd[glob]
          THEN /\ tpc' = [tpc EXCEPT ![t] = "failed"]
               /\ UNCHANGED hd
          ELSE /\ hd' = HSet(HDel(hd, glob, targ[t].key), trv[t], targ[t].key,
                             hd[glob][targ[t].key])
               /\ tpc' = [tpc EXCEPT ![t] = "c172"]
       /\ UNCHANGED <<hl, glob, targ, trv, ti, ncalls, nrec, returned, completed,
                      mode, drainKey>>
       /\ UNCHANGED <<bufVars, parseVars>>

\* line 164: rValue[key] = {}, and the start of the loop of line 165
C164 ==
    \E t \in Drainers :
       /\ tpc[t] = "c164"
       /\ hd' = HSet(Append(hd, EmptyDict), trv[t], targ[t].key, Len(hd) + 1)
       /\ ti' = [ti EXCEPT ![t] = 1]
       /\ tpc' = [tpc EXCEPT ![t] = IF targ[t].phasefilter = <<>> THEN "c170"
                                     ELSE "c167"]
       /\ UNCHANGED <<hl, glob, targ, trv, ncalls, nrec, returned, completed,
                      mode, drainKey>>
       /\ UNCHANGED <<bufVars, parseVars>>

\* lines 166-169: rValue[key][phase] = _msgbuffer[key].pop(phase), KeyError
\* (the key or the phase is not there) passed over
C167 ==
    \E t \in Drainers :
       /\ tpc[t] = "c167"
       /\ LET key == targ[t].key
              phase == targ[t].phasefilter[ti[t]]
          IN  IF key \in DOMAIN hd[glob] /\ phase \in DOMAIN hd[hd[glob][key]]
              THEN hd' = HSet(HDel(hd, hd[glob][key], phase), hd[trv[t]][key], phase,
                              hd[hd[glob][key]][phase])
              ELSE hd' = hd
       /\ ti' = [ti EXCEPT ![t] = @ + 1]
       /\ tpc' = [tpc EXCEPT ![t] = IF ti[t] = Len(targ[t].phasefilter) THEN "c170"
                                     ELSE "c167"]
       /\ UNCHANGED <<hl, glob, targ, trv, ncalls, nrec, returned, completed,
                      mode, drainKey>>
       /\ UNCHANGED <<bufVars, parseVars>>

\* line 170: if not _msgbuffer[key]; KeyError when key is gone
C170 ==
    \E t \in Drainers :
       /\ tpc[t] = "c170"
       /\ tpc' = [tpc EXCEPT ![t] =
                     IF targ[t].key \notin DOMAIN hd[glob] THEN "failed"
                     ELSE IF DOMAIN hd[hd[glob][targ[t].key]] = {} THEN "c171"
                          ELSE "c172"]
       /\ UNCHANGED <<hd, hl, glob, targ, trv, ti, ncalls, nrec, returned, completed,
                      mode, drainKey>>
       /\ UNCHANGED <<bufVars, parseVars>>

\* line 171: del _msgbuffer[key]; KeyError when key is gone
C171 ==
    \E t \in Drainers :
       /\ tpc[t] = "c171"
       /\ IF targ[t].key \notin DOMAIN hd[glob]
          THEN /\ tpc' = [tpc EXCEPT ![t] = "failed"]
               /\ UNCHANGED hd
          ELSE /\ hd' = HDel(hd, glob, targ[t].key)
               /\ tpc' = [tpc EXCEPT ![t] = "c172"]
       /\ UNCHANGED <<hl, glob, targ, trv, ti, ncalls, nrec, returned, completed,
                      mode, drainKey>>
       /\ UNCHANGED <<bufVars, parseVars>>

\* line 172: return rValue
C172 ==
    \E t \in Drainers :
       /\ tpc[t] = "c172"
       /\ returned' = Append(returned, [t |-> t, call |-> targ[t], ref |-> trv[t],
                                        val |-> ValOf(hd, hl, trv[t])])
       /\ tpc' = [tpc EXCEPT ![t] = "idle"]
       /\ UNCHANGED <<hd, hl, glob, targ, trv, ti, ncalls, nrec, completed,
                      mode, drainKey>>
       /\ UNCHANGED <<bufVars, parseVars>>

NextHeap ==
    \/ StartRecord \/ R143 \/ R144 \/ R145 \/ R146 \/ R147
    \/ StartDrain \/ C156 \/ C157 \/ C159 \/ C162 \/ C164 \/ C167 \/ C170 \/ C171
    \/ C172

\* a record interleaved with a drain, between statements
InitRecDrain == BufInit /\ ParserIdle /\ HeapStart /\ mode = "recdrain"

SpecRecDrain == InitRecDrain /\ [][NextHeap]_vars

\* two drains interleaved, between statements
InitDrains == BufInit /\ ParserIdle /\ HeapStart /\ mode = "drains"

SpecDrains == InitDrains /\ [][NextHeap]_vars

\* the same calls made one after the other
InitSeq == BufInit /\ ParserIdle /\ HeapStart /\ mode = "seq"

SpecSeq == InitSeq /\ [][NextHeap]_vars

-----------------------------------------------------------------------------
(* The specification of the sequential callers of the buffer *)

Init == BufInit /\ ParserIdle /\ ConcIdle

Next == Record \/ Drain

Spec == Init /\ [][Next]_vars

-----------------------------------------------------------------------------
(* Properties of the buffer under sequential calls *)

Range(seq) == { seq[i] : i \in DOMAIN seq }

IsKeyedDrain == lastCall.op = "drain" /\ lastCall.key # None

\* C1: every recorded entry is either still in the buffer or has been
\* returned by exactly one collect_messages call, never both and never twice.
C1_ExactlyOnce ==
    \A m \in DOMAIN delivered : Occurrences(msgbuffer, m) + delivered[m] = 1

C1_Witness ==
    /\ lastCall.op = "drain" /\ lastCall.given /\ lastCall.key # None
    /\ \E m1, m2 \in DOMAIN delivered :
          /\ delivered[m1] = 1 /\ Occurrences(rValue, m1) = 1
          /\ delivered[m2] = 0 /\ Occurrences(msgbuffer, m2) = 1
    /\ prevCall.op = "record"

\* C2 as stated: collect_messages(key=K) without a filter, K present, returns
\* the phase -> entries mapping stored under K itself.
C2_ReturnsPhaseMapping ==
    (IsKeyedDrain /\ ~lastCall.given /\ lastCall.key \in DOMAIN pre)
        => rValue = pre[lastCall.key]

\* C2 amended: collect_messages(key=K) without a filter, K present, returns
\* the one-key mapping K -> (phase -> entries stored under K) and removes K;
\* a second collect_messages(key=K) right after it returns the empty mapping.
C2_KeyedDrain ==
    /\ (IsKeyedDrain /\ ~lastCall.given /\ lastCall.key \in DOMAIN pre)
          => /\ rValue = DictSet(EmptyDict, lastCall.key, pre[lastCall.key])
             /\ msgbuffer = DictDel(pre, lastCall.key)
    /\ (/\ IsKeyedDrain
        /\ prevCall.op = "drain" /\ ~prevCall.given /\ prevCall.key = lastCall.key)
          => rValue = EmptyDict

C2_Witness ==
    /\ IsKeyedDrain /\ ~lastCall.given /\ lastCall.key = "k1"
    /\ rValue = DictSet(EmptyDict, "k1",
                   DictSet(EmptyDict, "compile", << <<"INFO", 1>>, <<"WARN", 2>> >>))
    /\ "k1" \notin DOMAIN msgbuffer

\* C3: collect_messages(key=K, phasefilter=F), K present, returns exactly the
\* phases of F that exist under K with their entries, removes exactly those,
\* keeps every other phase and key as it was, removes K iff nothing remains
\* under it, and a collect_messages(key=K) right after returns only the rest.
C3_FilteredDrain ==
    /\ (IsKeyedDrain /\ lastCall.given /\ lastCall.key \in DOMAIN pre) =>
          LET K    == lastCall.key
              hit  == Range(lastCall.phasefilter) \cap DOMAIN pre[K]
              rest == (DOMAIN pre[K]) \ Range(lastCall.phasefilter)
          IN  /\ DOMAIN rValue = {K}
              /\ DOMAIN rValue[K] = hit
              /\ \A p \in hit : rValue[K][p] = pre[K][p]
              /\ (K \notin DOMAIN msgbuffer) <=> (rest = {})
              /\ K \in DOMAIN msgbuffer =>
                    /\ DOMAIN msgbuffer[K] = rest
                    /\ \A p \in rest : msgbuffer[K][p] = pre[K][p]
              /\ (DOMAIN msgbuffer) \ {K} = (DOMAIN pre) \ {K}
              /\ \A k \in (DOMAIN pre) \ {K} : msgbuffer[k] = pre[k]
    /\ (/\ IsKeyedDrain /\ ~lastCall.given
        /\ prevCall.op = "drain" /\ prevCall.given /\ prevCall.key = lastCall.key)
          => \A k \in DOMAIN rValue :
                /\ k = lastCall.key
                /\ rValue[k] = pre[k]
                /\ (DOMAIN rValue[k]) \cap Range(prevCall.phasefilter) = {}

C3_Witness ==
    /\ IsKeyedDrain /\ lastCall.given /\ lastCall.key = "k1"
    /\ lastCall.phasefilter = <<"install", "install">>
    /\ DOMAIN pre = {"k1", "k2"}
    /\ DOMAIN pre["k1"] = {"compile", "install"}
    /\ DOMAIN rValue["k1"] = {"install"}
    /\ DOMAIN msgbuffer["k1"] = {"compile"}

\* C4: collect_messages() with key None, whatever the filter, returns the
\* whole buffer and leaves it empty; one right after it returns the empty mapping.
C4_GlobalDrain ==
    /\ (lastCall.op = "drain" /\ lastCall.key = None)
          => rValue = pre /\ msgbuffer = EmptyDict
    /\ (/\ lastCall.op = "drain" /\ lastCall.key = None
        /\ prevCall.op = "drain" /\ prevCall.key = None)
          => rValue = EmptyDict

C4_Witness ==
    /\ lastCall.op = "drain" /\ lastCall.key = None /\ lastCall.given
    /\ Cardinality(DOMAIN rValue) >= 2
    /\ \E k \in DOMAIN rValue : Cardinality(DOMAIN rValue[k]) = 2
    /\ msgbuffer = EmptyDict

\* C5: collect_messages(key=K) with K absent from the buffer returns the empty
\* mapping and leaves the buffer as it was, with or without a filter.
C5_AbsentKey ==
    (IsKeyedDrain /\ lastCall.key \notin DOMAIN pre)
        => rValue = EmptyDict /\ msgbuffer = pre

C5_Witness ==
    /\ IsKeyedDrain /\ lastCall.key \notin DOMAIN pre
    /\ lastCall.given /\ lastCall.phasefilter # <<>>
    /\ pre # EmptyDict
    /\ rValue = EmptyDict

\* C6: _elog_base appends <<level, msg>> at the end of buffer[key][phase]
\* (empty before if the key or phase was absent) and changes no other bucket;
\* so every bucket lists its entries in the order they were recorded.
C6_RecordAppends ==
    /\ lastCall.op = "record" =>
          LET K == lastCall.key
              P == lastCall.phase
              before == IF K \in DOMAIN pre /\ P \in DOMAIN pre[K]
                        THEN pre[K][P] ELSE <<>>
          IN  /\ DOMAIN msgbuffer = (DOMAIN pre) \cup {K}
              /\ DOMAIN msgbuffer[K] =
                    (IF K \in DOMAIN pre THEN DOMAIN pre[K] ELSE {}) \cup {P}
              /\ msgbuffer[K][P] = Append(before, <<lastCall.level, lastCall.msg>>)
              /\ \A k \in DOMAIN pre : \A p \in DOMAIN pre[k] :
                    (k # K \/ p # P) => msgbuffer[k][p] = pre[k][p]
    /\ \A k \in DOMAIN msgbuffer : \A p \in DOMAIN msgbuffer[k] :
          \A i, j \in DOMAIN msgbuffer[k][p] :
             i < j => msgbuffer[k][p][i][2] < msgbuffer[k][p][j][2]

C6_Witness ==
    /\ lastCall.op = "record"
    /\ Len(msgbuffer[lastCall.key][lastCall.phase]) = 3
    /\ Cardinality(DOMAIN msgbuffer) = 1

-----------------------------------------------------------------------------
(* Properties of collect_ebuild_messages *)

\* the listed names whose file has been read to its end
ParsedNames ==
    { name \in DOMAIN logentries : name \in opened /\ name \in DOMAIN fs0
                                   /\ name \notin unreadable }

\* the lines of the file as the call found it
LinesOf(name) == SplitNL(fs0[name])

\* the <<severity, message>> pairs of the accepted lines, in file order
RECURSIVE Accepted(_)
Accepted(lines) ==
    IF lines = <<>> THEN <<>>
    ELSE LET p == SplitLine(Head(lines)) IN
         (IF Head(lines) # <<>> /\ p.ok THEN << <<p.msgtype, p.msg>> >> ELSE <<>>)
            \o Accepted(Tail(lines))

\* the <<severity, message>> pairs of a group sequence, in order
RECURSIVE Flatten(_)
Flatten(groups) ==
    IF groups = <<>> THEN <<>>
    ELSE [i \in 1..Len(Head(groups)[2]) |-> <<Head(groups)[1], Head(groups)[2][i]>>]
            \o Flatten(Tail(groups))

\* C7: the groups of a parsed file are the maximal runs of equal severity of
\* its accepted lines: no group is empty, adjacent groups differ in severity,
\* and the groups flattened are the accepted lines in file order.
C7_MaximalRuns ==
    \A name \in ParsedNames :
       LET groups == logentries[name] IN
       /\ \A i \in DOMAIN groups : groups[i][2] # <<>>
       /\ \A i \in 1..(Len(groups) - 1) : groups[i][1] # groups[i + 1][1]
       /\ Flatten(groups) = Accepted(LinesOf(name))

C7_Witness ==
    /\ pc = "returned"
    /\ DOMAIN ret = {"compile"}
    /\ ret["compile"] = << <<"INFO", << <<"a">>, <<"b">> >> >>,
                           <<"WARN", << <<"c">>, <<"c">> >> >>,
                           <<"INFO", << <<"a">> >> >> >>
    /\ diag = <<>>

\* a non-empty line whose text before the first space (the whole line if it
\* holds none) is not a log level
BadSeverity(l) ==
    /\ l # <<>>
    /\ LET i == FirstIndex(l, SP)
           tok == IF i = 0 THEN l ELSE SubSeq(l, 1, i - 1)
       IN  ~(Len(tok) = 1 /\ tok[1] \in log_levels)

RemoveAt(seq, i) == SubSeq(seq, 1, i - 1) \o SubSeq(seq, i + 1, Len(seq))

\* C8: a line whose severity is not a log level yields a diagnostic, is in no
\* group, and the groups are those of the same file without that line.
C8_BadSeveritySkipped ==
    \A name \in ParsedNames :
       \A i \in DOMAIN LinesOf(name) :
          LET l == LinesOf(name)[i] IN
          BadSeverity(l) =>
             /\ \E d \in DOMAIN diag : diag[d] = MalformedDiag(name, l)
             /\ \A g \in DOMAIN logentries[name] :
                   \A m \in DOMAIN logentries[name][g][2] :
                      <<logentries[name][g][1], SP>> \o logentries[name][g][2][m] # l
             /\ logentries[name] = ParseLines(name, RemoveAt(LinesOf(name), i)).groups

C8_Witness ==
    /\ pc = "returned"
    /\ fs0 = [n \in {"compile"} |->
                 FileText(<< <<"INFO", SP, "a">>, <<"BOGUS", SP, "x">>,
                             <<"INFO", SP, "b">> >>)]
    /\ ret["compile"] = << <<"INFO", << <<"a">>, <<"b">> >> >> >>
    /\ diag = << MalformedDiag("compile", <<"BOGUS", SP, "x">>) >>

\* the listed names that are not phases
InvalidListed == { mylogfiles[i] : i \in DOMAIN mylogfiles } \ EBUILD_PHASES

\* C9 as stated: after the call has returned, a listed file that is not a
\* phase is not in the result, was reported, and is no longer in the directory.
C9_InvalidFileGone ==
    pc = "returned" =>
       \A name \in InvalidListed :
          /\ name \notin DOMAIN ret
          /\ \E d \in DOMAIN diag : diag[d] = InvalidFileDiag(name)
          /\ name \notin DOMAIN fsFiles

\* C9 amended: after the call has returned, a listed file that is not a phase
\* is not in the result, was reported, and os.unlink() was called on it: it is
\* no longer in the directory unless that unlink failed.
C9_InvalidFileSwept ==
    pc = "returned" =>
       \A name \in InvalidListed :
          /\ name \notin DOMAIN ret
          /\ \E d \in DOMAIN diag : diag[d] = InvalidFileDiag(name)
          /\ \E u \in DOMAIN unlinked : unlinked[u] = name
          /\ (name \in DOMAIN fsFiles) <=> (name \in unremovable)

C9_Witness ==
    /\ pc = "returned"
    /\ InvalidListed = {"not_a_phase"}
    /\ "not_a_phase" \notin DOMAIN fsFiles
    /\ "compile" \in DOMAIN ret /\ ret["compile"] # <<>>
    /\ "compile" \in DOMAIN fsFiles

\* C10 as stated: a listed file that is not a phase is still in the directory
\* after the call has returned.
C10_InvalidFileLeft ==
    pc = "returned" => \A name \in InvalidListed : name \in DOMAIN fsFiles

\* C10 amended: a listed file that is not a phase is reported and never
\* opened, and it is in the directory, as it was, up to the cleanup sweep; the
\* sweep unlinks it, so after the return it is there only if that unlink failed.
C10_InvalidFileUntilSweep ==
    /\ \A name \in InvalidListed : name \notin opened
    /\ pc \in {"files", "raised"} =>
          \A name \in InvalidListed :
             name \in DOMAIN fsFiles /\ fsFiles[name] = fs0[name]
    /\ pc \in {"clean", "returned"} =>
          \A name \in InvalidListed :
             \E d \in DOMAIN diag : diag[d] = InvalidFileDiag(name)
    /\ pc = "returned" =>
          \A name \in InvalidListed :
             (name \in DOMAIN fsFiles) <=> (name \in unremovable)

C10_Witness ==
    /\ pc = "clean" /\ idx = 1
    /\ InvalidListed = {"not_a_phase"}
    /\ mylogfiles[1] = "not_a_phase"
    /\ "not_a_phase" \in DOMAIN fsFiles
    /\ "not_a_phase" \notin unremovable
    /\ Len(diag) >= 1

\* C11: collect_ebuild_messages never lets an exception reach its caller,
\* whatever the listing, the opening or reading of a file, or an unlink does.
C11_NeverRaises == pc # "raised"

\* C12: when the directory cannot be listed or lists nothing, the call
\* returns the empty mapping, reports nothing, raises nothing, unlinks nothing.
C12_NothingListed ==
    (~listable \/ DOMAIN fs0 = {}) =>
       /\ pc \in {"start", "returned"}
       /\ ret = EmptyDict
       /\ diag = <<>>
       /\ unlinked = <<>>
       /\ opened = {}
       /\ fsFiles = fs0

C12_Witness ==
    /\ pc = "returned"
    /\ ~listable
    /\ DOMAIN fs0 = {"compile", "not_a_phase"}
    /\ fsFiles = fs0

\* C13: once the files of a non-empty listing are parsed, the sweep calls
\* unlink on every listed name in turn, phase or not; a failing unlink raises
\* nothing, stops nothing and leaves the returned mapping as the parse made it.
C13_SweepsEveryName ==
    /\ pc = "clean" => unlinked = SubSeq(mylogfiles, 1, idx - 1)
    /\ pc = "raised" => unlinked = <<>>
    /\ (pc = "returned" /\ mylogfiles # <<>>) =>
          /\ unlinked = mylogfiles
          /\ ret = logentries
          /\ \A name \in DOMAIN fs0 :
                (name \in DOMAIN fsFiles) <=> (name \in unremovable)
    /\ pc \in {"clean", "returned"} =>
          \A name \in DOMAIN logentries :
             logentries[name] = ParseLines(name, LinesOf(name)).groups

C13_Witness ==
    /\ pc = "returned"
    /\ Len(mylogfiles) = 3
    /\ mylogfiles[1] \in unremovable /\ mylogfiles[1] \in DOMAIN fsFiles
    /\ mylogfiles[2] \notin DOMAIN fsFiles
    /\ mylogfiles[3] \in unremovable \ EBUILD_PHASES
    /\ unlinked = mylogfiles
    /\ \E name \in DOMAIN ret : ret[name] # <<>>

\* C18: when the listing is not empty and every listed phase file is
\* readable, the returned mapping has exactly the listed phase names as keys;
\* a file without accepted lines maps to the empty sequence, and the groups of
\* each phase are those of its own lines.
C18_KeysAreListedPhases ==
    (pc = "returned" /\ mylogfiles # <<>>) =>
       /\ DOMAIN ret = Range(mylogfiles) \cap EBUILD_PHASES
       /\ \A name \in DOMAIN ret :
             /\ Flatten(ret[name]) = Accepted(LinesOf(name))
             /\ \A i \in 1..(Len(ret[name]) - 1) : ret[name][i][1] # ret[name][i + 1][1]
             /\ Accepted(LinesOf(name)) = <<>> => ret[name] = <<>>

C18_Witness ==
    /\ pc = "returned"
    /\ Range(mylogfiles) = {"compile", "install", "not_a_phase"}
    /\ DOMAIN ret = {"compile", "install"}
    /\ ret["compile"] = <<>>
    /\ LinesOf("compile")[1] = <<"BOGUS", SP, "x">>
    /\ ret["install"] = << <<"INFO", << <<"a">> >> >> >>
    /\ mylogfiles[1] = "install"

\* C19: every key in the buffer has at least one phase, and every phase under
\* a key has at least one entry.
C19_WellFormedBuffer ==
    \A k \in DOMAIN msgbuffer :
       /\ DOMAIN msgbuffer[k] # {}
       /\ \A p \in DOMAIN msgbuffer[k] : msgbuffer[k][p] # <<>>

C19_Witness ==
    /\ IsKeyedDrain /\ lastCall.given
    /\ lastCall.phasefilter = <<"install", "install">>
    /\ lastCall.key \in DOMAIN pre
    /\ lastCall.key \notin DOMAIN msgbuffer
    /\ msgbuffer # EmptyDict
    /\ prevCall.op = "drain" /\ prevCall.given /\ prevCall.phasefilter = <<>>
    /\ prevCall.key = lastCall.key

\* the rule of C17: the line holds a space, and what stands before its first
\* space is a log level; the message is all that follows that space
RuleAccepts(l) ==
    \E i \in DOMAIN l :
       /\ l[i] = SP
       /\ \A j \in 1..(i - 1) : l[j] # SP
       /\ i = 2 /\ l[1] \in log_levels

RuleMessage(l) == [j \in 1..(Len(l) - 2) |-> l[j + 2]]

RECURSIVE RulePairs(_)
RulePairs(lines) ==
    IF lines = <<>> THEN <<>>
    ELSE (IF RuleAccepts(Head(lines))
          THEN << <<Head(lines)[1], RuleMessage(Head(lines))>> >> ELSE <<>>)
            \o RulePairs(Tail(lines))

RECURSIVE RuleDiags(_, _)
RuleDiags(name, lines) ==
    IF lines = <<>> THEN <<>>
    ELSE (IF Head(lines) # <<>> /\ ~RuleAccepts(Head(lines))
          THEN <<MalformedDiag(name, Head(lines))>> ELSE <<>>)
            \o RuleDiags(name, Tail(lines))

\* C17: a non-empty line is accepted iff it holds a space and the text before
\* its first space is a log level, its message being the rest verbatim; every
\* other non-empty line is reported and skipped, an empty line only skipped.
C17_LineFormat ==
    \A name \in ParsedNames :
       /\ Flatten(logentries[name]) = RulePairs(LinesOf(name))
       /\ SelectSeq(diag, LAMBDA d : d.file = name /\ d.kind = "malformed entry")
             = RuleDiags(name, LinesOf(name))

C17_Witness ==
    /\ pc = "returned"
    /\ LinesOf("compile") = << <<"INFO", SP, SP, "a">>, <<"INFO">>, <<>> >>
    /\ ret["compile"] = << <<"INFO", << <<SP, "a">> >> >> >>
    /\ diag = << MalformedDiag("compile", <<"INFO">>) >>

\* C16: a log file the writer produces after the listing can be unlinked by
\* the sweep without having been opened; that happens to listed names only,
\* a file produced under another name is left in the directory.
C16_SweepByListedName ==
    /\ lostNew \subseteq Range(mylogfiles)
    /\ \A name \in written \ Range(mylogfiles) :
          name \in DOMAIN fsFiles /\ name \in newFiles
    /\ \A name \in newFiles : name \in DOMAIN fsFiles

C16_Witness ==
    /\ pc = "returned"
    /\ lostNew = {"compile"}
    /\ "compile" \notin DOMAIN fsFiles
    /\ "compile" \in DOMAIN ret
    /\ ret["compile"] = << <<"INFO", << <<"a">> >> >> >>

-----------------------------------------------------------------------------
(* Claims about concurrent callers and about the returned objects *)

\* msg is an entry of the key -> phase -> entries value v
HasMsg(v, m) ==
    \E k \in DOMAIN v : \E p \in DOMAIN v[k] : \E i \in DOMAIN v[k][p] : v[k][p][i][2] = m

\* the dict objects of the value of dict object id, and its list objects
DictsOf(id) == {id} \cup {hd[id][k] : k \in DOMAIN hd[id]}

ListsOf(id) == UNION {{hd[hd[id][k]][p] : p \in DOMAIN hd[hd[id][k]]} : k \in DOMAIN hd[id]}

\* C14: a record interleaved with a drain (keyed on the same key, or global)
\* completes without error, and once no drain is running the entry of every
\* completed record is in a returned value or in the buffer.
C14_RecordNotLost ==
    /\ \A t \in Recorders : tpc[t] # "failed"
    /\ (\A t \in Drainers : tpc[t] = "idle") =>
          \A m \in completed :
             \/ HasMsg(ValOf(hd, hl, glob), m)
             \/ \E i \in DOMAIN returned : HasMsg(returned[i].val, m)

\* C15: of two interleaved drains that cover the same key neither fails, and
\* no entry is in the values returned by both.
C15_DrainsAtomic ==
    /\ \A t \in Drainers : tpc[t] # "failed"
    /\ \A i, j \in DOMAIN returned :
          i # j => \A m \in 1..nrec : ~(HasMsg(returned[i].val, m) /\ HasMsg(returned[j].val, m))

\* C20: with the calls made one after the other, the value of every object
\* returned by collect_messages stays what it was at the return, and the
\* returned object shares no dict and no list with the buffer.
C20_ReturnedValueFrozen ==
    \A i \in DOMAIN returned :
       /\ ValOf(hd, hl, returned[i].ref) = returned[i].val
       /\ DictsOf(returned[i].ref) \cap DictsOf(glob) = {}
       /\ ListsOf(returned[i].ref) \cap ListsOf(glob) = {}

\* a drain returned entries of a key and phase, and a later record on the
\* same key and phase has completed
C20_Witness ==
    /\ \A t \in Threads : tpc[t] = "idle"
    /\ \E i \in DOMAIN returned :
       \E k \in DOMAIN returned[i].val :
       \E p \in DOMAIN returned[i].val[k] :
          /\ returned[i].val[k][p] = << <<"INFO", 1>> >>
          /\ k \in DOMAIN hd[glob]
          /\ p \in DOMAIN hd[hd[glob][k]]
          /\ hl[hd[hd[glob][k]][p]] = << <<"INFO", 2>> >>

====
